---------------------------- MODULE Spec2Model ----------------------------
(***************************************************************************)
(* Website Watchdog: the incident lifecycle of watchdog.py and the alert   *)
(* gating of alerter.py.                                                   *)
(*                                                                         *)
(* The store (tables targets, checks, incidents) is the state.  A row id   *)
(* is the row's position in its table: ids are handed out in insertion     *)
(* order and no row is ever deleted.  `calls` records every call of an     *)
(* Alerter entry point, `sent` every hand-over of a message to a sender    *)
(* (Slack CLI, SMTP, Twilio) with what became of it; what a sender does    *)
(* depends on the process environment `env`.                               *)
(***************************************************************************)
EXTENDS Integers, Sequences, FiniteSets, TLC

VARIABLES
    targets,       \* targets table: id -> row
    alert_config,  \* the 'alerts' section of the YAML configuration
    checks,        \* checks table, in insertion order
    incidents,     \* incidents table, in insertion order
    calls,         \* calls of send_initial/escalation/recovery_alert, in order
    sent,          \* messages handed to _send_slack / _send_email / _send_sms
    procs,         \* per invocation: position inside check_target/handle_result
    env,           \* os.environ and the reachability of the transports
    raised         \* the exception the latest handle_result let escape, or None

vars == <<targets, alert_config, checks, incidents, calls, sent, procs, env, raised>>

-----------------------------------------------------------------------------
(* Bounds of the exploration *)

\* checks recorded in one behaviour of Spec
MaxChecks == 4
\* largest escalate_after explored by Spec
MaxThreshold == 3
\* checks recorded in one behaviour of SpecScenario
ScenarioChecks == 6
\* checks recorded in one behaviour of SpecConc
ConcChecks == 3
\* checks recorded in one behaviour of SpecClassify
ClassifyChecks == 2
\* checks recorded in one behaviour of SpecSend
SendChecks == 3
\* checks recorded in one behaviour of SpecRun
RunChecks == 3
\* checks recorded in one behaviour of SpecDefaults
DefaultsChecks == 5

-----------------------------------------------------------------------------
(* Values *)

\* Python None / SQL NULL is the empty tuple, a present value a 1-tuple.
None == <<>>
Some(x) == <<x>>

\* dict.get(key, default): a key of a YAML mapping is None when missing.
DictGet(value, default) == IF value = None THEN default ELSE value[1]

Targets == {1, 2}
Procs == {1, 2}
Channels == {"slack", "email", "sms"}
NonSuccess == {"failure", "timeout", "error"}
Statuses == {"success"} \cup NonSuccess

\* alert_channels lists, in the order slack, email, sms.
ChannelLists ==
    { <<>>, <<"slack">>, <<"email">>, <<"sms">>,
      <<"slack", "email">>, <<"slack", "sms">>, <<"email", "sms">>,
      <<"slack", "email", "sms">> }

Range(s) == { s[i] : i \in DOMAIN s }

\* `x in list`
In(x, list) == x \in Range(list)

\* Python `sub in text`, strings being sequences of tokens.
IsSubstring(sub, text) ==
    \E i \in 0..(Len(text) - Len(sub)) : SubSeq(text, i + 1, i + Len(sub)) = sub

\* CURRENT_TIMESTAMP: a logical clock that advances with every recorded check.
Now(chks) == Len(chks)

-----------------------------------------------------------------------------
(* Alert settings: Alerter.alert_config and the .get defaults *)

DefaultEmailThreshold == 3
DefaultSmsThreshold == 5

EmailThreshold(cfg) == DictGet(cfg.email.escalate_after, DefaultEmailThreshold)

SmsThreshold(cfg) == DictGet(cfg.sms.escalate_after, DefaultSmsThreshold)

EmailEnabled(cfg) == DictGet(cfg.email.enabled, TRUE)

\* sms given the default of email.
SmsEnabledDefaultTrue(cfg) == DictGet(cfg.sms.enabled, TRUE)

SmsEnabled(cfg) == DictGet(cfg.sms.enabled, FALSE)

SlackEnabled(cfg) == DictGet(cfg.slack.enabled, TRUE)

SmsMethod(cfg) == DictGet(cfg.sms.method, "email_gateway")

-----------------------------------------------------------------------------
(* The senders: what becomes of a message handed to _send_slack, _send_email
   or _send_sms.  "delivered", "failed" (the transport raised and the sender
   caught it), "skipped" (credentials missing) or "raised" (the sender let an
   exception escape).  Strings of the environment are sequences of characters. *)

Digits == { "0", "1", "2", "3", "4", "5", "6", "7", "8", "9" }

\* int(text) succeeds on a non-empty string of digits.
IntParses(text) == text # <<>> /\ \A i \in DOMAIN text : text[i] \in Digits

\* smtp_port = int(os.getenv('SMTP_PORT', 587)) raises ValueError.
SmtpPortRaises(e) == e.SMTP_PORT # None /\ ~IntParses(e.SMTP_PORT[1])

\* subprocess.run(['clawdbot', ...]) inside try/except Exception.
SendSlackOutcome(e) == IF e.reachable THEN "delivered" ELSE "failed"

SendEmail(e) ==
    IF SmtpPortRaises(e) THEN "raised"
    ELSE IF ~e.smtp_configured THEN "skipped"
    ELSE IF e.reachable THEN "delivered"
    ELSE "failed"

SendSmsTwilio(e) ==
    IF ~e.twilio_configured THEN "skipped"
    ELSE IF e.reachable THEN "delivered"
    ELSE "failed"

SendSmsEmailGateway(e) ==
    IF ~e.SMS_EMAIL_GATEWAY THEN "skipped" ELSE SendEmail(e)

SendSms(cfg, e) ==
    IF SmsMethod(cfg) = "twilio" THEN SendSmsTwilio(e) ELSE SendSmsEmailGateway(e)

\* SMTP_PORT unset, every credential set, every transport up.
WorkingEnv ==
    [ SMTP_PORT         |-> None,
      smtp_configured   |-> TRUE,
      twilio_configured |-> TRUE,
      SMS_EMAIL_GATEWAY |-> TRUE,
      reachable         |-> TRUE ]

-----------------------------------------------------------------------------
(* WatchdogDB *)

\* The row INSERT INTO checks adds; its id is the new length of the table.
CheckRow(target_id, status, status_code, response_time, error_message) ==
    [ target_id     |-> target_id,
      status        |-> status,
      status_code   |-> status_code,
      response_time |-> response_time,
      error_message |-> error_message ]

\* INSERT OR REPLACE keyed by target: the target keeps its latest check only.
RecordCheckReplaces(chks, row) ==
    IF \E c \in DOMAIN chks : chks[c].target_id = row.target_id
    THEN [ c \in DOMAIN chks |->
             IF chks[c].target_id = row.target_id THEN row ELSE chks[c] ]
    ELSE Append(chks, row)

RecordCheck(chks, row) == Append(chks, row)

\* Column defaults of the incidents table for the columns create_incident
\* does not name: status 'open', resolved_at NULL, the alerted flags 0,
\* started_at CURRENT_TIMESTAMP.
IncidentDefaults(now) ==
    [ status        |-> "open",
      started_at    |-> now,
      resolved_at   |-> None,
      slack_alerted |-> FALSE,
      email_alerted |-> FALSE,
      sms_alerted   |-> FALSE ]

\* The candidates of SELECT ... WHERE target_id = ? AND status = 'open'
\* ORDER BY started_at DESC LIMIT 1: the open incidents of the target with
\* the latest started_at (equal timestamps leave the pick to the engine).
OpenIncidents(incs, target_id) ==
    { i \in DOMAIN incs :
        incs[i].target_id = target_id /\ incs[i].status = "open" }

GetOpenIncidentNeverFinds(incs, target_id) == {}

GetOpenIncidentAnyStatus(incs, target_id) ==
    LET all == { i \in DOMAIN incs : incs[i].target_id = target_id }
    IN { i \in all : \A j \in all : incs[j].started_at <= incs[i].started_at }

GetOpenIncident(incs, target_id) ==
    LET open == OpenIncidents(incs, target_id)
    IN { i \in open : \A j \in open : incs[j].started_at <= incs[i].started_at }

\* What fetchone() hands to handle_result: None, or the row with its id.
Snapshot(incs, i) == Some([ id |-> i, row |-> incs[i] ])

FetchOpenIncident(incs, target_id) ==
    IF GetOpenIncident(incs, target_id) = {} THEN { None }
    ELSE { Snapshot(incs, i) : i \in GetOpenIncident(incs, target_id) }

\* INSERT OR REPLACE keyed by target: the target's latest incident is reused.
CreateIncidentReopens(incs, target_id, check_id, now) ==
    LET mine == { i \in DOMAIN incs : incs[i].target_id = target_id }
    IN IF mine = {}
       THEN Append(incs,
                   [ target_id     |-> target_id,
                     last_check_id |-> check_id,
                     failure_count |-> 1 ] @@ IncidentDefaults(now))
       ELSE [ i \in DOMAIN incs |->
                IF i \in mine /\ \A j \in mine : j <= i
                THEN [ target_id     |-> target_id,
                       last_check_id |-> check_id,
                       failure_count |-> 1 ] @@ IncidentDefaults(now)
                ELSE incs[i] ]

\* The insert leaves failure_count at 0 and counts on the next update.
CreateIncidentCountsFromZero(incs, target_id, check_id, now) ==
    Append(incs,
           [ target_id     |-> target_id,
             last_check_id |-> check_id,
             failure_count |-> 0 ] @@ IncidentDefaults(now))

CreateIncident(incs, target_id, check_id, now) ==
    Append(incs,
           [ target_id     |-> target_id,
             last_check_id |-> check_id,
             failure_count |-> 1 ] @@ IncidentDefaults(now))

UpdateIncidentNoIncrement(incs, incident_id, check_id, increment_count) ==
    [ i \in DOMAIN incs |->
        IF i = incident_id
        THEN [ incs[i] EXCEPT !.last_check_id = check_id ]
        ELSE incs[i] ]

UpdateIncidentNoWhere(incs, incident_id, check_id, increment_count) ==
    [ i \in DOMAIN incs |->
        [ incs[i] EXCEPT !.last_check_id = check_id,
                         !.failure_count = @ + 1 ] ]

\* The update writes the whole row back, the alerted flags at their defaults.
UpdateIncidentResetsFlags(incs, incident_id, check_id, increment_count) ==
    [ i \in DOMAIN incs |->
        IF i = incident_id
        THEN [ incs[i] EXCEPT !.last_check_id = check_id,
                              !.failure_count = @ + 1,
                              !.slack_alerted = FALSE,
                              !.email_alerted = FALSE,
                              !.sms_alerted = FALSE ]
        ELSE incs[i] ]

UpdateIncident(incs, incident_id, check_id, increment_count) ==
    [ i \in DOMAIN incs |->
        IF i = incident_id
        THEN IF increment_count
             THEN [ incs[i] EXCEPT !.last_check_id = check_id,
                                   !.failure_count = @ + 1 ]
             ELSE [ incs[i] EXCEPT !.last_check_id = check_id ]
        ELSE incs[i] ]

ResolveIncidentKeepsOpen(incs, incident_id, now) ==
    [ i \in DOMAIN incs |->
        IF i = incident_id
        THEN [ incs[i] EXCEPT !.resolved_at = Some(now) ]
        ELSE incs[i] ]

ResolveIncident(incs, incident_id, now) ==
    [ i \in DOMAIN incs |->
        IF i = incident_id
        THEN [ incs[i] EXCEPT !.status = "resolved",
                              !.resolved_at = Some(now) ]
        ELSE incs[i] ]

\* The column is fixed instead of built from the channel name.
MarkAlertSentSlackColumn(incs, incident_id, channel) ==
    [ i \in DOMAIN incs |->
        IF i = incident_id
        THEN [ incs[i] EXCEPT !.slack_alerted = TRUE ]
        ELSE incs[i] ]

\* The UPDATE without its WHERE clause: every incident is marked.
MarkAlertSentNoWhere(incs, incident_id, channel) ==
    [ i \in DOMAIN incs |->
        CASE channel = "slack" -> [ incs[i] EXCEPT !.slack_alerted = TRUE ]
          [] channel = "email" -> [ incs[i] EXCEPT !.email_alerted = TRUE ]
          [] channel = "sms"   -> [ incs[i] EXCEPT !.sms_alerted = TRUE ] ]

MarkAlertSent(incs, incident_id, channel) ==
    [ i \in DOMAIN incs |->
        IF i = incident_id
        THEN CASE channel = "slack" -> [ incs[i] EXCEPT !.slack_alerted = TRUE ]
               [] channel = "email" -> [ incs[i] EXCEPT !.email_alerted = TRUE ]
               [] channel = "sms"   -> [ incs[i] EXCEPT !.sms_alerted = TRUE ]
        ELSE incs[i] ]

-----------------------------------------------------------------------------
(* Alerter: each entry point yields the messages it hands to a sender *)

Message(kind, channel, result, failure_count) ==
    [ kind          |-> kind,
      channel       |-> channel,
      target_id     |-> result.target_id,
      check_id      |-> result.check_id,
      failure_count |-> failure_count ]

\* A message in `sent`: the message and what the sender made of it.
Handed(msg, outcome) == msg @@ [ outcome |-> outcome ]

\* _send_slack returns before sending when Slack is disabled.
SendSlack(cfg, e, msg) ==
    IF SlackEnabled(cfg) THEN << Handed(msg, SendSlackOutcome(e)) >> ELSE <<>>

\* The initial alert goes to Slack whatever the target lists.
SendInitialAlertUnfiltered(cfg, e, result) ==
    SendSlack(cfg, e, Message("initial", "slack", result, 1))

SendInitialAlert(cfg, e, result) ==
    IF In("slack", result.alert_channels)
    THEN SendSlack(cfg, e, Message("initial", "slack", result, 1))
    ELSE <<>>

EmailEscalatesAtLeast(cfg, result, failure_count) ==
    /\ failure_count >= EmailThreshold(cfg)
    /\ In("email", result.alert_channels)
    /\ EmailEnabled(cfg)

EmailEscalates(cfg, result, failure_count) ==
    /\ failure_count = EmailThreshold(cfg)
    /\ In("email", result.alert_channels)
    /\ EmailEnabled(cfg)

SmsEscalates(cfg, result, failure_count) ==
    /\ failure_count = SmsThreshold(cfg)
    /\ In("sms", result.alert_channels)
    /\ SmsEnabled(cfg)

\* The messages handed over and the exception that ended the call, if any:
\* an exception out of _send_email ends it before the SMS part.
SendEscalationAlert(cfg, e, result, incident, failure_count) ==
    LET email == IF EmailEscalates(cfg, result, failure_count)
                 THEN << Handed(Message("escalation", "email", result, failure_count),
                                SendEmail(e)) >>
                 ELSE <<>>
        email_raised == email # <<>> /\ SendEmail(e) = "raised"
        sms   == IF ~email_raised /\ SmsEscalates(cfg, result, failure_count)
                 THEN << Handed(Message("escalation", "sms", result, failure_count),
                                SendSms(cfg, e)) >>
                 ELSE <<>>
        sms_raised == sms # <<>> /\ SendSms(cfg, e) = "raised"
    IN [ sent   |-> email \o sms,
         raised |-> IF email_raised \/ sms_raised THEN Some("ValueError") ELSE None ]

\* The recovery goes to Slack whatever the target lists.
SendRecoveryAlertUnfiltered(cfg, e, result, incident) ==
    SendSlack(cfg, e, Message("recovery", "slack", result,
                              incident.row.failure_count))

SendRecoveryAlert(cfg, e, result, incident) ==
    IF In("slack", result.alert_channels)
    THEN SendSlack(cfg, e, Message("recovery", "slack", result,
                                   incident.row.failure_count))
    ELSE <<>>

\* One call of an Alerter entry point, with the arguments it was given.
Call(op, result, incident, failure_count) ==
    [ op            |-> op,
      target_id     |-> result.target_id,
      check_id      |-> result.check_id,
      incident      |-> incident,
      failure_count |-> failure_count ]

-----------------------------------------------------------------------------
(* Watchdog.check_target *)

ErrorMessage(fmt, nums, strs) == Some([ fmt |-> fmt, nums |-> nums, strs |-> strs ])

\* The content test never made.
TruthyNever(contains) == FALSE

\* `if target['contains']`: None and the empty string are falsy.
Truthy(contains) == contains # None /\ contains[1] # <<>>

\* The content test placed ahead of the status test.
CheckTargetContentFirst(target_id, target, outcome) ==
    CASE outcome.kind = "timeout" ->
           CheckRow(target_id, "timeout", None, None,
                    ErrorMessage("Timeout after {}s", <<target.timeout>>, <<>>))
      [] outcome.kind = "exception" ->
           CheckRow(target_id, "error", None, None,
                    ErrorMessage(outcome.error, <<>>, <<>>))
      [] outcome.kind = "response" ->
           IF Truthy(target.contains)
              /\ ~IsSubstring(target.contains[1], outcome.text)
           THEN CheckRow(target_id, "failure", Some(outcome.status_code),
                         Some(outcome.elapsed_ms),
                         ErrorMessage("Expected content '{}' not found",
                                      <<>>, <<target.contains[1]>>))
           ELSE IF outcome.status_code # target.expected_status
                THEN CheckRow(target_id, "failure", Some(outcome.status_code),
                              Some(outcome.elapsed_ms),
                              ErrorMessage("Expected {}, got {}",
                                           <<target.expected_status,
                                             outcome.status_code>>,
                                           <<>>))
                ELSE CheckRow(target_id, "success", Some(outcome.status_code),
                              Some(outcome.elapsed_ms), None)

\* The content test made whenever contains is not NULL, with an empty
\* substring found in no body.
CheckTargetEmptyNeverFound(target_id, target, outcome) ==
    CASE outcome.kind = "timeout" ->
           CheckRow(target_id, "timeout", None, None,
                    ErrorMessage("Timeout after {}s", <<target.timeout>>, <<>>))
      [] outcome.kind = "exception" ->
           CheckRow(target_id, "error", None, None,
                    ErrorMessage(outcome.error, <<>>, <<>>))
      [] outcome.kind = "response" ->
           IF outcome.status_code # target.expected_status
           THEN CheckRow(target_id, "failure", Some(outcome.status_code),
                         Some(outcome.elapsed_ms),
                         ErrorMessage("Expected {}, got {}",
                                      <<target.expected_status, outcome.status_code>>,
                                      <<>>))
           ELSE IF /\ target.contains # None
                   /\ \/ target.contains[1] = <<>>
                      \/ ~IsSubstring(target.contains[1], outcome.text)
                THEN CheckRow(target_id, "failure", Some(outcome.status_code),
                              Some(outcome.elapsed_ms),
                              ErrorMessage("Expected content '{}' not found",
                                           <<>>, <<target.contains[1]>>))
                ELSE CheckRow(target_id, "success", Some(outcome.status_code),
                              Some(outcome.elapsed_ms), None)

\* The row check_target records for a probe outcome.
CheckTarget(target_id, target, outcome) ==
    CASE outcome.kind = "timeout" ->
           CheckRow(target_id, "timeout", None, None,
                    ErrorMessage("Timeout after {}s", <<target.timeout>>, <<>>))
      [] outcome.kind = "exception" ->
           CheckRow(target_id, "error", None, None,
                    ErrorMessage(outcome.error, <<>>, <<>>))
      [] outcome.kind = "response" ->
           IF outcome.status_code # target.expected_status
           THEN CheckRow(target_id, "failure", Some(outcome.status_code),
                         Some(outcome.elapsed_ms),
                         ErrorMessage("Expected {}, got {}",
                                      <<target.expected_status, outcome.status_code>>,
                                      <<>>))
           ELSE IF Truthy(target.contains)
                   /\ ~IsSubstring(target.contains[1], outcome.text)
                THEN CheckRow(target_id, "failure", Some(outcome.status_code),
                              Some(outcome.elapsed_ms),
                              ErrorMessage("Expected content '{}' not found",
                                           <<>>, <<target.contains[1]>>))
                ELSE CheckRow(target_id, "success", Some(outcome.status_code),
                              Some(outcome.elapsed_ms), None)

\* The dict check_target returns (name and the optional keys left out).
Result(row, check_id, target) ==
    [ target_id      |-> row.target_id,
      status         |-> row.status,
      check_id       |-> check_id,
      alert_channels |-> target.alert_channels ]

-----------------------------------------------------------------------------
(* Watchdog.handle_result *)

\* The loop over result['alert_channels'] that marks the new incident.
RECURSIVE MarkAlerts(_, _, _)
MarkAlerts(incs, incident_id, channel_list) ==
    IF channel_list = <<>> THEN incs
    ELSE MarkAlerts(
            IF Head(channel_list) \in Channels
            THEN MarkAlertSent(incs, incident_id, Head(channel_list))
            ELSE incs,
            incident_id, Tail(channel_list))

\* The count is read off the row fetched before the update, without the + 1.
FailureCountOfSnapshot(incident) == incident.row.failure_count

\* `failure_count = incident['failure_count'] + 1`, from the row fetched
\* before the update.
NewFailureCount(incident) == incident.row.failure_count + 1

IsSuccessWrongLiteral(result) == result.status = "ok"

\* A timeout or an error is not taken for a failure of the target.
IsSuccessUnlessFailure(result) == result.status # "failure"

\* `if status == 'success'`
IsSuccess(result) == result.status = "success"

\* The store and the logs after handle_result(result), and the exception it
\* let escape if any; `incident` is what get_open_incident returned and `now`
\* the time of the call.
HandleResult(db, cfg, e, result, incident, now) ==
    IF IsSuccess(result)
    THEN IF incident # None
         THEN [ incidents |-> ResolveIncident(db.incidents, incident[1].id, now),
                calls     |-> Append(db.calls,
                                     Call("send_recovery_alert", result,
                                          incident, None)),
                sent      |-> db.sent \o SendRecoveryAlert(cfg, e, result, incident[1]),
                raised    |-> None ]
         ELSE db
    ELSE IF incident # None
         THEN LET failure_count == NewFailureCount(incident[1])
                  escalation    == SendEscalationAlert(cfg, e, result, incident[1],
                                                       failure_count)
              IN [ incidents |-> UpdateIncident(db.incidents, incident[1].id,
                                                result.check_id, TRUE),
                   calls     |-> Append(db.calls,
                                        Call("send_escalation_alert", result,
                                             incident, Some(failure_count))),
                   sent      |-> db.sent \o escalation.sent,
                   raised    |-> escalation.raised ]
         ELSE LET created     == CreateIncident(db.incidents, result.target_id,
                                                result.check_id, now)
                  incident_id == Len(created)
              IN [ incidents |-> MarkAlerts(created, incident_id,
                                            result.alert_channels),
                   calls     |-> Append(db.calls,
                                        Call("send_initial_alert", result,
                                             None, None)),
                   sent      |-> db.sent \o SendInitialAlert(cfg, e, result),
                   raised    |-> None ]

-----------------------------------------------------------------------------
(* One iteration of the loop of run_checks, run without interruption *)

Db == [ incidents |-> incidents, calls |-> calls, sent |-> sent, raised |-> None ]

\* What the probe of a target can come back with.
ProbeOutcomes ==
    { [ kind |-> "timeout",   status_code |-> 0,   text |-> <<>>, elapsed_ms |-> 0,
        error |-> "" ],
      [ kind |-> "exception", status_code |-> 0,   text |-> <<>>, elapsed_ms |-> 0,
        error |-> "Connection refused" ],
      [ kind |-> "response",  status_code |-> 200, text |-> <<"OK">>,
        elapsed_ms |-> 150, error |-> "" ],
      [ kind |-> "response",  status_code |-> 500, text |-> <<"OK">>,
        elapsed_ms |-> 150, error |-> "" ] }

ProcessTarget(t, outcome) ==
    /\ targets[t].enabled
    /\ \A p \in Procs : procs[p].pc = "idle"
    /\ checks' = RecordCheck(checks, CheckTarget(t, targets[t], outcome))
    /\ \E incident \in FetchOpenIncident(incidents, t) :
         \E after \in { HandleResult(Db, alert_config, env,
                                     Result(checks'[Len(checks')], Len(checks'),
                                            targets[t]),
                                     incident, Now(checks')) } :
           /\ incidents' = after.incidents
           /\ calls' = after.calls
           /\ sent' = after.sent
           /\ raised' = after.raised
    /\ UNCHANGED <<targets, alert_config, procs, env>>

-----------------------------------------------------------------------------
(* Configurations and initial states *)

\* A row of the targets table; every explored target expects 200, waits 10 s
\* and requires no substring.
TargetRow(enabled, channel_list) ==
    [ expected_status |-> 200,
      timeout         |-> 10,
      contains        |-> None,
      enabled         |-> enabled,
      alert_channels  |-> channel_list ]

AlertConfig(slack_enabled, email_enabled, email_after, sms_enabled, sms_after) ==
    [ slack |-> [ enabled |-> Some(slack_enabled) ],
      email |-> [ enabled |-> Some(email_enabled), escalate_after |-> Some(email_after) ],
      sms   |-> [ enabled |-> Some(sms_enabled), escalate_after |-> Some(sms_after),
                  method |-> None ] ]

\* `run`, `pending` and `first` belong to run_checks: how the invocation
\* stands, the targets its loop has still to visit, and the number of check
\* rows it found at its start.
IdleProc == [ pc |-> "idle", probe |-> None, result |-> None, incident |-> None,
              incident_id |-> None, todo |-> <<>>,
              run |-> "none", pending |-> <<>>, first |-> 0 ]

EmptyStore ==
    /\ checks = <<>>
    /\ incidents = <<>>
    /\ calls = <<>>
    /\ sent = <<>>
    /\ procs = [ p \in Procs |-> IdleProc ]
    /\ raised = None

\* Two enabled targets under the test suite's alert settings, Slack on or off.
InitTwoTargets ==
    /\ \E l1 \in ChannelLists :
          targets = (1 :> TargetRow(TRUE, l1)) @@ (2 :> TargetRow(TRUE, <<"slack">>))
    /\ \E se \in BOOLEAN : alert_config = AlertConfig(se, TRUE, 3, TRUE, 5)

\* One enabled target under every alert setting up to MaxThreshold.
InitOneTarget ==
    /\ \E l1 \in ChannelLists :
          targets = (1 :> TargetRow(TRUE, l1)) @@ (2 :> TargetRow(FALSE, <<"slack">>))
    /\ \E ee, me \in BOOLEAN, et, mt \in 1..MaxThreshold :
          alert_config = AlertConfig(TRUE, ee, et, me, mt)

Init == EmptyStore /\ env = WorkingEnv /\ (InitTwoTargets \/ InitOneTarget)

Next ==
    /\ Len(checks) < MaxChecks
    /\ \E t \in Targets, outcome \in ProbeOutcomes : ProcessTarget(t, outcome)

Spec == Init /\ [][Next]_vars

\* The escalation scenario: email after 3, sms after 5, both enabled and both
\* listed for target 1, the only enabled target.
InitScenario ==
    /\ EmptyStore
    /\ \E l1 \in { <<"email", "sms">>, <<"slack", "email", "sms">> } :
          targets = (1 :> TargetRow(TRUE, l1)) @@ (2 :> TargetRow(FALSE, <<"slack">>))
    /\ \E se \in BOOLEAN : alert_config = AlertConfig(se, TRUE, 3, TRUE, 5)
    /\ env = WorkingEnv

NextScenario ==
    /\ Len(checks) < ScenarioChecks
    /\ \E t \in Targets, outcome \in ProbeOutcomes : ProcessTarget(t, outcome)

SpecScenario == InitScenario /\ [][NextScenario]_vars

-----------------------------------------------------------------------------
(* Overlapping invocations: check_target and handle_result one store call or
   one Alerter call at a time.  Every store call commits on its own, and
   nothing in the code keeps another invocation out between two of them. *)

Goto(p, pc) == procs' = [ procs EXCEPT ![p].pc = pc ]

\* handle_result is left: its locals are gone, the loop of run_checks goes on.
Finish(p) ==
    procs' = [ procs EXCEPT ![p] = [ IdleProc EXCEPT !.run = procs[p].run,
                                                     !.pending = procs[p].pending,
                                                     !.first = procs[p].first ] ]

\* check_target: probe, record_check, return the result.
ConcCheckTarget(p, t, outcome) ==
    /\ procs[p].pc = "idle"
    /\ targets[t].enabled
    /\ LET row      == CheckTarget(t, targets[t], outcome)
           recorded == RecordCheck(checks, row)
       IN /\ checks' = recorded
          /\ procs' = [ procs EXCEPT
                          ![p].pc = "get_open_incident",
                          ![p].result = Some(Result(row, Len(recorded), targets[t])) ]
    /\ UNCHANGED <<targets, alert_config, incidents, calls, sent, env, raised>>

\* incident = self.db.get_open_incident(target_id), and the branch taken.
ConcGetOpenIncident(p) ==
    /\ procs[p].pc = "get_open_incident"
    /\ LET result == procs[p].result[1]
       IN \E incident \in FetchOpenIncident(incidents, result.target_id) :
            IF IsSuccess(result) /\ incident = None
            THEN Finish(p) /\ raised' = None
            ELSE /\ procs' = [ procs EXCEPT
                                ![p].incident = incident,
                                ![p].pc = IF IsSuccess(result) THEN "resolve_incident"
                                          ELSE IF incident # None THEN "update_incident"
                                          ELSE "create_incident" ]
                 /\ UNCHANGED raised
    /\ UNCHANGED <<targets, alert_config, checks, incidents, calls, sent, env>>

ConcResolveIncident(p) ==
    /\ procs[p].pc = "resolve_incident"
    /\ incidents' = ResolveIncident(incidents, procs[p].incident[1].id, Now(checks))
    /\ Goto(p, "send_recovery_alert")
    /\ UNCHANGED <<targets, alert_config, checks, calls, sent, env, raised>>

ConcSendRecoveryAlert(p) ==
    /\ procs[p].pc = "send_recovery_alert"
    /\ LET result   == procs[p].result[1]
           incident == procs[p].incident
       IN /\ calls' = Append(calls, Call("send_recovery_alert", result, incident, None))
          /\ sent' = sent \o SendRecoveryAlert(alert_config, env, result, incident[1])
    /\ Finish(p)
    /\ raised' = None
    /\ UNCHANGED <<targets, alert_config, checks, incidents, env>>

ConcUpdateIncident(p) ==
    /\ procs[p].pc = "update_incident"
    /\ incidents' = UpdateIncident(incidents, procs[p].incident[1].id,
                                   procs[p].result[1].check_id, TRUE)
    /\ Goto(p, "send_escalation_alert")
    /\ UNCHANGED <<targets, alert_config, checks, calls, sent, env, raised>>

ConcSendEscalationAlert(p) ==
    /\ procs[p].pc = "send_escalation_alert"
    /\ LET result        == procs[p].result[1]
           incident      == procs[p].incident
           failure_count == NewFailureCount(incident[1])
           escalation    == SendEscalationAlert(alert_config, env, result, incident[1],
                                                failure_count)
       IN /\ calls' = Append(calls, Call("send_escalation_alert", result, incident,
                                         Some(failure_count)))
          /\ sent' = sent \o escalation.sent
          /\ raised' = escalation.raised
    /\ Finish(p)
    /\ UNCHANGED <<targets, alert_config, checks, incidents, env>>

ConcCreateIncident(p) ==
    /\ procs[p].pc = "create_incident"
    /\ LET result  == procs[p].result[1]
           created == CreateIncident(incidents, result.target_id, result.check_id,
                                     Now(checks))
       IN /\ incidents' = created
          /\ procs' = [ procs EXCEPT ![p].incident_id = Some(Len(created)),
                                     ![p].pc = "send_initial_alert" ]
    /\ UNCHANGED <<targets, alert_config, checks, calls, sent, env, raised>>

ConcSendInitialAlert(p) ==
    /\ procs[p].pc = "send_initial_alert"
    /\ LET result == procs[p].result[1]
       IN /\ calls' = Append(calls, Call("send_initial_alert", result, None, None))
          /\ sent' = sent \o SendInitialAlert(alert_config, env, result)
          /\ IF result.alert_channels = <<>>
             THEN Finish(p) /\ raised' = None
             ELSE /\ procs' = [ procs EXCEPT ![p].todo = result.alert_channels,
                                             ![p].pc = "mark_alert_sent" ]
                  /\ UNCHANGED raised
    /\ UNCHANGED <<targets, alert_config, checks, incidents, env>>

\* One round of `for channel in result.get('alert_channels', ['slack'])`.
ConcMarkAlertSent(p) ==
    /\ procs[p].pc = "mark_alert_sent"
    /\ LET channel == Head(procs[p].todo)
       IN incidents' = IF channel \in Channels
                       THEN MarkAlertSent(incidents, procs[p].incident_id[1], channel)
                       ELSE incidents
    /\ IF Tail(procs[p].todo) = <<>>
       THEN Finish(p) /\ raised' = None
       ELSE procs' = [ procs EXCEPT ![p].todo = Tail(@) ] /\ UNCHANGED raised
    /\ UNCHANGED <<targets, alert_config, checks, calls, sent, env>>

\* Two enabled targets; email escalates after 2 and sms after 3 failures.
InitConc ==
    /\ EmptyStore
    /\ targets = (1 :> TargetRow(TRUE, <<"slack", "email", "sms">>))
                  @@ (2 :> TargetRow(TRUE, <<"slack">>))
    /\ alert_config = AlertConfig(TRUE, TRUE, 2, TRUE, 3)
    /\ env = WorkingEnv

NextConc ==
    \E p \in Procs :
      \/ /\ Len(checks) < ConcChecks
         /\ \E t \in Targets, outcome \in ProbeOutcomes : ConcCheckTarget(p, t, outcome)
      \/ ConcGetOpenIncident(p)
      \/ ConcResolveIncident(p)
      \/ ConcSendRecoveryAlert(p)
      \/ ConcUpdateIncident(p)
      \/ ConcSendEscalationAlert(p)
      \/ ConcCreateIncident(p)
      \/ ConcSendInitialAlert(p)
      \/ ConcMarkAlertSent(p)

SpecConc == InitConc /\ [][NextConc]_vars

-----------------------------------------------------------------------------
(* Classification: the probe of one target comes back, then check_target
   classifies and records it and handle_result runs *)

\* What requests.request can come back with for the classified targets.
ClassifyOutcomes ==
    { [ kind |-> "timeout", status_code |-> 0, text |-> <<>>, elapsed_ms |-> 0,
        error |-> "" ] }
    \cup
    { [ kind |-> "exception", status_code |-> 0, text |-> <<>>, elapsed_ms |-> 0,
        error |-> e ] : e \in { "Connection refused", "" } }
    \cup
    { [ kind |-> "response", status_code |-> code, text |-> text,
        elapsed_ms |-> 150, error |-> "" ] :
        code \in { 200, 500 },
        text \in { <<"Status:", "healthy">>, <<"Status:", "degraded">> } }

\* requests.request(...) returns or raises.
ProbeReturns(p, t, outcome) ==
    /\ \A q \in Procs : procs[q].pc = "idle"
    /\ targets[t].enabled
    /\ procs' = [ procs EXCEPT
                    ![p].pc = "classify",
                    ![p].probe = Some([ target_id |-> t, outcome |-> outcome ]) ]
    /\ UNCHANGED <<targets, alert_config, checks, incidents, calls, sent, env, raised>>

\* The rest of check_target, and handle_result.
ClassifyAndHandle(p) ==
    /\ procs[p].pc = "classify"
    /\ LET t       == procs[p].probe[1].target_id
           outcome == procs[p].probe[1].outcome
       IN /\ checks' = RecordCheck(checks, CheckTarget(t, targets[t], outcome))
          /\ \E incident \in FetchOpenIncident(incidents, t) :
               \E after \in { HandleResult(Db, alert_config, env,
                                           Result(checks'[Len(checks')], Len(checks'),
                                                  targets[t]),
                                           incident, Now(checks')) } :
                 /\ incidents' = after.incidents
                 /\ calls' = after.calls
                 /\ sent' = after.sent
                 /\ raised' = after.raised
    /\ Finish(p)
    /\ UNCHANGED <<targets, alert_config, env>>

\* One enabled target: expected status 200 or 500; contains NULL, the empty
\* string or 'healthy'.
InitClassify ==
    /\ EmptyStore
    /\ \E expected \in { 200, 500 }, contains \in { None, Some(<<>>), Some(<<"healthy">>) } :
          targets = (1 :> [ TargetRow(TRUE, <<"slack">>) EXCEPT
                              !.expected_status = expected,
                              !.contains = contains ])
                    @@ (2 :> TargetRow(FALSE, <<"slack">>))
    /\ alert_config = AlertConfig(TRUE, TRUE, 3, TRUE, 5)
    /\ env = WorkingEnv

NextClassify ==
    \/ /\ Len(checks) < ClassifyChecks
       /\ \E t \in Targets, outcome \in ClassifyOutcomes : ProbeReturns(1, t, outcome)
    \/ ClassifyAndHandle(1)

SpecClassify == InitClassify /\ [][NextClassify]_vars

-----------------------------------------------------------------------------
(* Senders that fail: run_checks under every environment of the senders *)

\* SMTP_PORT unset, '587', empty or 'smtp'; credentials set or not; transports
\* up or down.
Envs ==
    { [ SMTP_PORT         |-> port,
        smtp_configured   |-> configured,
        twilio_configured |-> twilio,
        SMS_EMAIL_GATEWAY |-> gateway,
        reachable         |-> up ] :
        port \in { None, Some(<<"5", "8", "7">>), Some(<<>>),
                   Some(<<"s", "m", "t", "p">>) },
        configured \in BOOLEAN, twilio \in BOOLEAN, gateway \in BOOLEAN,
        up \in BOOLEAN }

\* One enabled target listing every channel or sms alone; email escalates
\* after 2 failures, sms after 2 or 3, by email gateway or Twilio.
InitSend ==
    /\ EmptyStore
    /\ \E l1 \in { <<"slack", "email", "sms">>, <<"sms">> } :
          targets = (1 :> TargetRow(TRUE, l1)) @@ (2 :> TargetRow(FALSE, <<"slack">>))
    /\ \E mt \in { 2, 3 }, method \in { None, Some("twilio") } :
          alert_config = [ AlertConfig(TRUE, TRUE, 2, TRUE, mt) EXCEPT
                             !.sms.method = method ]
    /\ env \in Envs

NextSend ==
    /\ Len(checks) < SendChecks
    /\ \E t \in Targets, outcome \in ProbeOutcomes : ProcessTarget(t, outcome)

SpecSend == InitSend /\ [][NextSend]_vars

-----------------------------------------------------------------------------
(* run_checks: one invocation after the other, each visiting the enabled
   targets in order, one store call or Alerter call per step.  A store call of
   handle_result may raise (sqlite3.Error), and the process may be killed
   between any two steps. *)

\* SELECT * FROM targets WHERE enabled = 1, in row order.
GetActiveTargetsAll(tgts) == [ i \in 1..Cardinality(DOMAIN tgts) |-> i ]

GetActiveTargets(tgts) ==
    LET IsEnabled(t) == tgts[t].enabled
    IN SelectSeq([ i \in 1..Cardinality(DOMAIN tgts) |-> i ], IsEnabled)

\* The positions at which the next statement of handle_result is a store call.
StoreCallPcs ==
    { "get_open_incident", "resolve_incident", "update_incident",
      "create_incident", "mark_alert_sent" }

\* run_checks up to its loop: connect, get_active_targets, `if not targets`.
RunStart(p) ==
    /\ procs[p].pc = "idle"
    /\ procs[p].run # "running"
    /\ Len(checks) + Len(GetActiveTargets(targets)) <= RunChecks
    /\ procs' = [ procs EXCEPT
                    ![p].pending = GetActiveTargets(targets),
                    ![p].first = Len(checks),
                    ![p].run = IF GetActiveTargets(targets) = <<>>
                               THEN "completed" ELSE "running" ]
    /\ raised' = None
    /\ UNCHANGED <<targets, alert_config, checks, incidents, calls, sent, env>>

\* `for target in targets: result = self.check_target(target)`
RunCheckTarget(p, outcome) ==
    /\ procs[p].pc = "idle"
    /\ procs[p].run = "running"
    /\ procs[p].pending # <<>>
    /\ raised = None
    /\ LET t        == Head(procs[p].pending)
           row      == CheckTarget(t, targets[t], outcome)
           recorded == RecordCheck(checks, row)
       IN /\ checks' = recorded
          /\ procs' = [ procs EXCEPT
                          ![p].pc = "get_open_incident",
                          ![p].pending = Tail(procs[p].pending),
                          ![p].result = Some(Result(row, Len(recorded), targets[t])) ]
    /\ UNCHANGED <<targets, alert_config, incidents, calls, sent, env, raised>>

\* The loop is through: "Check complete", exit code 0.
RunComplete(p) ==
    /\ procs[p].pc = "idle"
    /\ procs[p].run = "running"
    /\ procs[p].pending = <<>>
    /\ raised = None
    /\ procs' = [ procs EXCEPT ![p].run = "completed" ]
    /\ UNCHANGED <<targets, alert_config, checks, incidents, calls, sent, env, raised>>

\* Nothing in run_checks or main catches what handle_result raises: the
\* process ends with a traceback, the pending targets unvisited.
RunAbort(p) ==
    /\ procs[p].pc = "idle"
    /\ procs[p].run = "running"
    /\ raised # None
    /\ procs' = [ procs EXCEPT ![p].run = "aborted" ]
    /\ UNCHANGED <<targets, alert_config, checks, incidents, calls, sent, env, raised>>

\* The store call handle_result is about to make raises.
RunPersistenceError(p) ==
    /\ procs[p].run = "running"
    /\ procs[p].pc \in StoreCallPcs
    /\ raised' = Some("sqlite3.Error")
    /\ Finish(p)
    /\ UNCHANGED <<targets, alert_config, checks, incidents, calls, sent, env>>

\* The process is killed; what is committed stays.
RunInterrupt(p) ==
    /\ procs[p].run = "running"
    /\ procs' = [ procs EXCEPT ![p] = [ IdleProc EXCEPT
                                          !.run = "interrupted",
                                          !.pending = procs[p].pending,
                                          !.first = procs[p].first ] ]
    /\ UNCHANGED <<targets, alert_config, checks, incidents, calls, sent, env, raised>>

\* SMTP_PORT set to the empty string.
BlankPortEnv == [ WorkingEnv EXCEPT !.SMTP_PORT = Some(<<>>) ]

\* Targets 1 and 2, each enabled or not; email escalates after 2 failures.
InitRun ==
    /\ EmptyStore
    /\ \E e1, e2 \in BOOLEAN :
          targets = (1 :> TargetRow(e1, <<"slack", "email">>))
                    @@ (2 :> TargetRow(e2, <<"slack">>))
    /\ alert_config = AlertConfig(TRUE, TRUE, 2, TRUE, 3)
    /\ env \in { WorkingEnv, BlankPortEnv }

NextRun ==
    \/ RunStart(1)
    \/ \E outcome \in ProbeOutcomes : RunCheckTarget(1, outcome)
    \/ ConcGetOpenIncident(1)
    \/ ConcResolveIncident(1)
    \/ ConcSendRecoveryAlert(1)
    \/ ConcUpdateIncident(1)
    \/ ConcSendEscalationAlert(1)
    \/ ConcCreateIncident(1)
    \/ ConcSendInitialAlert(1)
    \/ ConcMarkAlertSent(1)
    \/ RunComplete(1)
    \/ RunAbort(1)
    \/ RunPersistenceError(1)
    \/ RunInterrupt(1)

SpecRun == InitRun /\ [][NextRun]_vars

-----------------------------------------------------------------------------
(* Alert settings with keys left out: alert_config.get('email', {}) makes an
   omitted section a mapping without keys, so every .get on it takes its
   default *)

OmittedSection == [ enabled |-> None, escalate_after |-> None ]

\* A section that has escalate_after and no 'enabled' key.
WithoutEnabledKey(after) == [ enabled |-> None, escalate_after |-> Some(after) ]

\* One enabled target listing email and sms, with or without slack; the email
\* and the sms settings are each omitted or lack the 'enabled' key.
InitDefaults ==
    /\ EmptyStore
    /\ \E l1 \in { <<"email", "sms">>, <<"slack", "email", "sms">> } :
          targets = (1 :> TargetRow(TRUE, l1)) @@ (2 :> TargetRow(FALSE, <<"slack">>))
    /\ \E email \in { OmittedSection, WithoutEnabledKey(2) },
          sms \in { OmittedSection, WithoutEnabledKey(2) } :
          alert_config = [ slack |-> [ enabled |-> None ],
                           email |-> email,
                           sms   |-> sms @@ [ method |-> None ] ]
    /\ env = WorkingEnv

NextDefaults ==
    /\ Len(checks) < DefaultsChecks
    /\ \E t \in Targets, outcome \in ProbeOutcomes : ProcessTarget(t, outcome)

SpecDefaults == InitDefaults /\ [][NextDefaults]_vars

-----------------------------------------------------------------------------
(* Reading the history off the checks table *)

\* The ids of the target's checks, oldest first.
TargetChecks(t) ==
    LET IsMine(c) == checks[c].target_id = t
    IN SelectSeq([ c \in 1..Len(checks) |-> c ], IsMine)

Failed(c) == checks[c].status \in NonSuccess

\* Length of the run of consecutive non-success checks of the target that
\* ends at position j of TargetChecks(t) (0 when that check succeeded).
RunLength(t, j) ==
    LET ids == TargetChecks(t)
    IN CHOOSE k \in 0..j :
         /\ \A m \in (j - k + 1)..j : Failed(ids[m])
         /\ (k < j => ~Failed(ids[j - k]))

\* Consecutive non-success checks of the target up to now.
TrailingFailures(t) == RunLength(t, Len(TargetChecks(t)))

IncidentsOf(t) == { i \in DOMAIN incidents : incidents[i].target_id = t }

-----------------------------------------------------------------------------
(* Claims *)

\* C1: whatever sequence of check results is processed one after the other,
\* a target never has more than one incident with status 'open'.
C1_AtMostOneOpenIncident ==
    \A t \in Targets : Cardinality(OpenIncidents(incidents, t)) <= 1

\* A target that has a resolved incident and an open one that continued.
C1_Witness ==
    \E t \in Targets :
      /\ \E i \in IncidentsOf(t) : incidents[i].status = "resolved"
      /\ \E i \in OpenIncidents(incidents, t) : incidents[i].failure_count >= 2

\* C2: after N >= 1 consecutive non-success results of a target (failure,
\* timeout or error, no success in between) since its last resolution or a
\* clean start, the target has an open incident and its failure_count is N.
C2_FailureCountIsRunLength ==
    \A t \in Targets :
      TrailingFailures(t) >= 1 =>
        /\ OpenIncidents(incidents, t) # {}
        /\ \A i \in OpenIncidents(incidents, t) :
              incidents[i].failure_count = TrailingFailures(t)

\* Two non-success results of different kinds after an earlier resolution.
C2_Witness ==
    \E t \in Targets :
      LET ids == TargetChecks(t)
          n   == Len(ids)
      IN /\ TrailingFailures(t) = 2
         /\ checks[ids[n]].status # checks[ids[n - 1]].status
         /\ \E i \in IncidentsOf(t) : incidents[i].status = "resolved"
         /\ \E i \in OpenIncidents(incidents, t) : incidents[i].failure_count = 2

\* C3: a success right after K consecutive non-success results leaves the
\* incident resolved with failure_count K, for good; the target's next
\* non-success result opens another incident, with a new id and failure_count 1.
C3_RecoveryThenNewIncident ==
    \A t \in Targets :
      LET ids == TargetChecks(t)
          n   == Len(ids)
      IN \A j \in 2..n :
           (~Failed(ids[j]) /\ Failed(ids[j - 1])) =>
             \E r \in IncidentsOf(t) :
               /\ incidents[r].status = "resolved"
               /\ incidents[r].resolved_at # None
               /\ incidents[r].failure_count = RunLength(t, j - 1)
               /\ incidents[r].last_check_id = ids[j - 1]
               /\ (/\ j < n
                   /\ Failed(ids[n])
                   /\ \A m \in (j + 1)..(n - 1) : ~Failed(ids[m]))
                  => \E o \in OpenIncidents(incidents, t) :
                       /\ o > r
                       /\ incidents[o].failure_count = 1
                       /\ incidents[o].last_check_id = ids[n]

\* Two failures, a success, then a failure: incident 1 resolved with count 2,
\* incident 2 open with count 1.
C3_Witness ==
    \E t \in Targets :
      LET ids == TargetChecks(t)
      IN /\ Len(ids) = 4
         /\ Failed(ids[1]) /\ Failed(ids[2]) /\ ~Failed(ids[3]) /\ Failed(ids[4])
         /\ \E r, o \in IncidentsOf(t) :
               /\ r # o
               /\ incidents[r].status = "resolved" /\ incidents[r].failure_count = 2
               /\ incidents[o].status = "open" /\ incidents[o].failure_count = 1

\* The checks of the run of non-success results an incident stands for, oldest
\* first: the run of its target that ends at the incident's last_check_id.
RunOf(i) ==
    LET ids == TargetChecks(incidents[i].target_id)
        j   == CHOOSE m \in DOMAIN ids : ids[m] = incidents[i].last_check_id
        k   == RunLength(incidents[i].target_id, j)
    IN SubSeq(ids, j - k + 1, j)

\* Positions in `sent` of the channel's escalation messages of an incident.
EscalationsOf(i, channel) ==
    { k \in DOMAIN sent :
        /\ sent[k].kind = "escalation"
        /\ sent[k].channel = channel
        /\ sent[k].target_id = incidents[i].target_id
        /\ In(sent[k].check_id, RunOf(i)) }

Threshold(channel) ==
    IF channel = "email" THEN EmailThreshold(alert_config)
    ELSE SmsThreshold(alert_config)

\* The channel is listed for the target and enabled in the alert settings.
Gate(channel, t) ==
    /\ In(channel, targets[t].alert_channels)
    /\ IF channel = "email" THEN EmailEnabled(alert_config)
       ELSE SmsEnabled(alert_config)

\* For the incidents whose channel threshold is at least `lowest`: the channel's
\* escalation goes out on the check that makes failure_count the threshold,
\* once, and on no other check; never when the channel is not listed or off.
EscalatesExactlyAtThreshold(lowest) ==
    \A i \in DOMAIN incidents : \A channel \in {"email", "sms"} :
      LET T   == Threshold(channel)
          run == RunOf(i)
          esc == EscalationsOf(i, channel)
      IN T >= lowest =>
           IF Gate(channel, incidents[i].target_id)
           THEN /\ Cardinality(esc) <= 1
                /\ \A k \in esc : /\ sent[k].failure_count = T
                                  /\ Len(run) >= T
                                  /\ sent[k].check_id = run[T]
                /\ Len(run) >= T => esc # {}
           ELSE esc = {}

\* C4: for a channel (email, sms) with threshold T >= 1, the escalation of an
\* incident is sent exactly once, on the check at which failure_count becomes
\* T, not at T-1 or T+1, and never when the channel is not listed for the
\* target or is disabled.
C4_EscalationExactlyOnceAtThreshold == EscalatesExactlyAtThreshold(1)

\* What the code does keep: the same for every threshold T >= 2, and no
\* escalation at all for a channel whose threshold is 1.
EscalationFromSecondFailure ==
    /\ EscalatesExactlyAtThreshold(2)
    /\ \A i \in DOMAIN incidents : \A channel \in {"email", "sms"} :
          Threshold(channel) = 1 => EscalationsOf(i, channel) = {}

\* An incident that went one past the threshold of a listed, enabled channel.
EscalationReached ==
    \E i \in DOMAIN incidents : \E channel \in {"email", "sms"} :
      /\ Threshold(channel) >= 2
      /\ Gate(channel, incidents[i].target_id)
      /\ incidents[i].failure_count = Threshold(channel) + 1
      /\ Cardinality(EscalationsOf(i, channel)) = 1

\* Positions in `log` of the entries made for a check of the sequence `run`.
EntriesFor(log, t, run) ==
    { k \in DOMAIN log : log[k].target_id = t /\ In(log[k].check_id, run) }

\* C5: with email escalate_after 3 and sms escalate_after 5, both enabled and
\* listed, five consecutive non-success results from a clean state make one
\* initial alert (at count 1), one email escalation (at count 3), one sms
\* escalation (at count 5), and no other escalation message.
C5_FiveFailuresScenario ==
    \A t \in Targets :
      LET ids == TargetChecks(t)
          n   == Len(ids)
          run == SubSeq(ids, n - 4, n)
          ini == { k \in EntriesFor(calls, t, run) : calls[k].op = "send_initial_alert" }
          esc == { k \in EntriesFor(sent, t, run) : sent[k].kind = "escalation" }
          slk == { k \in EntriesFor(sent, t, run) : sent[k].kind = "initial" }
      IN (/\ EmailThreshold(alert_config) = 3 /\ SmsThreshold(alert_config) = 5
          /\ Gate("email", t) /\ Gate("sms", t)
          /\ TrailingFailures(t) = 5)
         =>
         /\ Cardinality(ini) = 1
         /\ \A k \in ini : calls[k].check_id = run[1]
         /\ Cardinality(slk) <= 1
         /\ \A k \in slk : sent[k].check_id = run[1] /\ sent[k].failure_count = 1
         /\ (slk # {}) <=> (In("slack", targets[t].alert_channels)
                            /\ SlackEnabled(alert_config))
         /\ Cardinality(esc) = 2
         /\ \E e, m \in esc :
               /\ sent[e].channel = "email" /\ sent[e].failure_count = 3
               /\ sent[e].check_id = run[3]
               /\ sent[m].channel = "sms" /\ sent[m].failure_count = 5
               /\ sent[m].check_id = run[5]

\* Five failures in a row after an earlier incident was resolved.
C5_Witness ==
    /\ TrailingFailures(1) = 5
    /\ Len(checks) = 6
    /\ Cardinality({ k \in DOMAIN sent : sent[k].kind = "escalation" }) = 2
    /\ \E i \in OpenIncidents(incidents, 1) : incidents[i].failure_count = 5

\* The check a step records, as <<id>>; <<>> for a step that records none.
Recorded == IF Len(checks') = Len(checks) + 1 THEN << Len(checks') >> ELSE <<>>

\* C6: processing a check result of one target leaves the incidents and the
\* check rows of every other target as they were, and creates no incident
\* for another target.
C6_OtherTargetsUntouched ==
    [][ Recorded # <<>> =>
          LET t == checks'[Recorded[1]].target_id
          IN /\ \A c \in DOMAIN checks : checks'[c] = checks[c]
             /\ \A i \in DOMAIN incidents :
                   incidents[i].target_id # t =>
                     i \in DOMAIN incidents' /\ incidents'[i] = incidents[i]
             /\ \A i \in DOMAIN incidents' \ DOMAIN incidents :
                   incidents'[i].target_id = t ]_vars

\* One target's incident continued after the other target's incident opened.
C6_Witness ==
    \E t, u \in Targets :
      /\ t # u
      /\ \E i \in OpenIncidents(incidents, t), j \in OpenIncidents(incidents, u) :
            /\ incidents[i].failure_count >= 2
            /\ incidents[i].last_check_id > incidents[j].last_check_id
            /\ i < j

\* C8: a resolved incident is final: no later check result of any target
\* changes any of its fields, and the only change of status an incident ever
\* makes is from open to resolved.
C8_ResolvedIsTerminal ==
    [][ \A i \in DOMAIN incidents :
          /\ i \in DOMAIN incidents'
          /\ incidents[i].status = "resolved" => incidents'[i] = incidents[i]
          /\ incidents'[i].status # incidents[i].status =>
                incidents[i].status = "open" /\ incidents'[i].status = "resolved"
      ]_vars

\* After an incident was resolved its target failed again and the other
\* target was checked as well.
C8_Witness ==
    \E t \in Targets :
      \E r \in IncidentsOf(t), o \in OpenIncidents(incidents, t) :
        /\ incidents[r].status = "resolved"
        /\ incidents[r].failure_count = 1
        /\ incidents[o].failure_count = 1
        /\ \E c \in DOMAIN checks :
              checks[c].target_id # t /\ c > incidents[r].resolved_at[1]

\* C9: handling a success for a target that has no open incident changes no
\* incident and sends nothing.
C9_SuccessWithoutIncidentIsNoOp ==
    [][ (/\ Recorded # <<>>
         /\ checks'[Recorded[1]].status = "success"
         /\ OpenIncidents(incidents, checks'[Recorded[1]].target_id) = {})
        => /\ incidents' = incidents
           /\ calls' = calls
           /\ sent' = sent ]_vars

\* A target succeeded twice in a row after a resolved incident, and another
\* time before it ever failed.
C9_Witness ==
    \E t \in Targets :
      LET ids == TargetChecks(t)
      IN /\ Len(ids) = 4
         /\ ~Failed(ids[1]) /\ Failed(ids[2]) /\ ~Failed(ids[3]) /\ ~Failed(ids[4])
         /\ Cardinality(IncidentsOf(t)) = 1
         /\ Cardinality(EntriesFor(calls, t, ids)) = 2

\* C10: handling a success for a target with an open incident resolves that
\* incident, sets resolved_at and changes nothing else, and emits exactly one
\* recovery action; its incident snapshot carries the failure_count the
\* incident had before, the number of non-success checks of the run.
C10_SuccessResolvesAndRecovers ==
    [][ \A t \in Targets : \A i \in OpenIncidents(incidents, t) :
          (/\ Recorded # <<>>
           /\ checks'[Recorded[1]].target_id = t
           /\ checks'[Recorded[1]].status = "success")
          => /\ incidents' = [ incidents EXCEPT
                                 ![i].status = "resolved",
                                 ![i].resolved_at = incidents'[i].resolved_at ]
             /\ incidents'[i].resolved_at # None
             /\ Len(calls') = Len(calls) + 1
             /\ SubSeq(calls', 1, Len(calls)) = calls
             /\ LET call == calls'[Len(calls')]
                IN /\ call.op = "send_recovery_alert"
                   /\ call.check_id = Recorded[1]
                   /\ call.incident # None
                   /\ call.incident[1].id = i
                   /\ call.incident[1].row.failure_count = incidents[i].failure_count
                   /\ call.incident[1].row.failure_count = TrailingFailures(t)
                   /\ call.incident[1].row.status = "open"
             /\ \A k \in DOMAIN sent' \ DOMAIN sent :
                   /\ sent'[k].kind = "recovery"
                   /\ sent'[k].failure_count = incidents[i].failure_count ]_vars

\* An incident of three failures was resolved and its recovery went to Slack.
C10_Witness ==
    \E i \in DOMAIN incidents :
      /\ incidents[i].status = "resolved"
      /\ incidents[i].resolved_at # None
      /\ incidents[i].failure_count = 3
      /\ \E k \in DOMAIN calls :
            /\ calls[k].op = "send_recovery_alert"
            /\ calls[k].incident[1].id = i
            /\ calls[k].incident[1].row.failure_count = 3
      /\ \E k \in DOMAIN sent :
            sent[k].kind = "recovery" /\ sent[k].failure_count = 3

\* C7: when two invocations process the same target at the same time, their
\* get_open_incident, create_incident, update_incident and resolve_incident
\* calls interleaving in any order, the target still never has two open
\* incidents.
C7_AtMostOneOpenIncidentConcurrently ==
    \A i, j \in DOMAIN incidents :
      (/\ incidents[i].target_id = incidents[j].target_id
       /\ incidents[i].status = "open"
       /\ incidents[j].status = "open")
      => i = j

-----------------------------------------------------------------------------
(* Claims on the transitions of a non-success check *)

\* C11: handling a non-success result for a target without an open incident
\* creates exactly one incident, open, with failure_count 1 and this check as
\* last_check_id, and calls the initial alert exactly once; no escalation is
\* called or sent on that check.
C11_FirstFailureOpensIncident ==
    [][ (/\ Recorded # <<>>
         /\ checks'[Recorded[1]].status \in NonSuccess
         /\ OpenIncidents(incidents, checks'[Recorded[1]].target_id) = {})
        => LET t == checks'[Recorded[1]].target_id
               n == Len(incidents) + 1
           IN /\ Len(incidents') = n
              /\ \A i \in DOMAIN incidents : incidents'[i] = incidents[i]
              /\ incidents'[n].target_id = t
              /\ incidents'[n].status = "open"
              /\ incidents'[n].resolved_at = None
              /\ incidents'[n].failure_count = 1
              /\ incidents'[n].last_check_id = Recorded[1]
              /\ Len(calls') = Len(calls) + 1
              /\ SubSeq(calls', 1, Len(calls)) = calls
              /\ calls'[Len(calls')].op = "send_initial_alert"
              /\ calls'[Len(calls')].target_id = t
              /\ calls'[Len(calls')].check_id = Recorded[1]
              /\ SubSeq(sent', 1, Len(sent)) = sent
              /\ Len(sent') <= Len(sent) + 1
              /\ \A k \in DOMAIN sent' \ DOMAIN sent :
                    /\ sent'[k].kind = "initial"
                    /\ sent'[k].check_id = Recorded[1] ]_vars

\* A target's second incident: opened by a timeout after the first one was
\* resolved, with its initial alert sent to Slack.
C11_Witness ==
    \E t \in Targets :
      \E r \in IncidentsOf(t), o \in OpenIncidents(incidents, t) :
        /\ incidents[r].status = "resolved"
        /\ incidents[o].failure_count = 1
        /\ checks[incidents[o].last_check_id].status = "timeout"
        /\ \E k \in DOMAIN sent :
              sent[k].kind = "initial" /\ sent[k].check_id = incidents[o].last_check_id

\* C12: handling a non-success result for a target with an open incident adds
\* exactly 1 to that incident's failure_count and makes this check its
\* last_check_id; no step ever lowers a failure_count; the escalation is called
\* with the failure_count the incident has in the store after the update.
C12_FailureContinuesIncident ==
    [][ /\ \A i \in DOMAIN incidents :
             /\ i \in DOMAIN incidents'
             /\ incidents'[i].failure_count >= incidents[i].failure_count
        /\ \A t \in Targets : \A i \in OpenIncidents(incidents, t) :
             (/\ Recorded # <<>>
              /\ checks'[Recorded[1]].target_id = t
              /\ checks'[Recorded[1]].status \in NonSuccess)
             => /\ incidents' = [ incidents EXCEPT
                                    ![i].failure_count = incidents[i].failure_count + 1,
                                    ![i].last_check_id = Recorded[1] ]
                /\ Len(calls') = Len(calls) + 1
                /\ SubSeq(calls', 1, Len(calls)) = calls
                /\ LET call == calls'[Len(calls')]
                   IN /\ call.op = "send_escalation_alert"
                      /\ call.check_id = Recorded[1]
                      /\ call.incident # None
                      /\ call.incident[1].id = i
                      /\ call.failure_count = Some(incidents'[i].failure_count)
                /\ SubSeq(sent', 1, Len(sent)) = sent
                /\ \A k \in DOMAIN sent' \ DOMAIN sent :
                      /\ sent'[k].kind = "escalation"
                      /\ sent'[k].failure_count = incidents'[i].failure_count
      ]_vars

\* An incident that reached failure_count 3 through two escalation calls, the
\* second of them with failure_count 3.
C12_Witness ==
    \E i \in DOMAIN incidents :
      /\ incidents[i].status = "open"
      /\ incidents[i].failure_count = 3
      /\ \E k \in DOMAIN calls :
            /\ calls[k].op = "send_escalation_alert"
            /\ calls[k].check_id = incidents[i].last_check_id
            /\ calls[k].failure_count = Some(3)
      /\ Cardinality({ k \in DOMAIN calls :
                         /\ calls[k].op = "send_escalation_alert"
                         /\ calls[k].incident[1].id = i }) = 2

\* C13: there is no debounce.  After every check result handled in sequence,
\* a target has an open incident exactly when its most recently handled check
\* result is a non-success.
C13_OpenIffLastCheckFailed ==
    \A t \in Targets :
      LET ids == TargetChecks(t)
      IN (OpenIncidents(incidents, t) # {})
           <=> (ids # <<>> /\ checks[ids[Len(ids)]].status \in NonSuccess)

\* A target flapped: failure, success, failure, success; both incidents were
\* opened by a single failure and closed by the very next success.
C13_Witness ==
    \E t \in Targets :
      LET ids == TargetChecks(t)
      IN /\ Len(ids) = 4
         /\ Failed(ids[1]) /\ ~Failed(ids[2]) /\ Failed(ids[3]) /\ ~Failed(ids[4])
         /\ Cardinality(IncidentsOf(t)) = 2
         /\ \A i \in IncidentsOf(t) :
               incidents[i].status = "resolved" /\ incidents[i].failure_count = 1

-----------------------------------------------------------------------------
(* Claims on classification *)

\* The check row a step records, when the step classifies a probe.
Classified == checks'[Len(checks')]

\* C14: every probe outcome gets exactly one status, by the first rule that
\* matches: timeout; any other failure to complete -> error; status code other
\* than expected -> failure; required substring missing from the body ->
\* failure; otherwise success, with no error message.
C14_ClassificationTotalAndOrdered ==
    [][ (\E p \in Procs : procs[p].pc = "classify" /\ Recorded # <<>>)
        => \A p \in Procs : procs[p].pc = "classify" =>
             LET outcome  == procs[p].probe[1].outcome
                 target   == targets[procs[p].probe[1].target_id]
                 mismatch == outcome.status_code # target.expected_status
                 missing  == /\ target.contains # None
                             /\ ~IsSubstring(target.contains[1], outcome.text)
             IN /\ Classified.status \in Statuses
                /\ Classified.target_id = procs[p].probe[1].target_id
                /\ outcome.kind = "timeout" =>
                      /\ Classified.status = "timeout"
                      /\ Classified.error_message =
                            ErrorMessage("Timeout after {}s", <<target.timeout>>, <<>>)
                /\ outcome.kind = "exception" =>
                      /\ Classified.status = "error"
                      /\ Classified.error_message =
                            ErrorMessage(outcome.error, <<>>, <<>>)
                /\ (outcome.kind = "response" /\ mismatch) =>
                      /\ Classified.status = "failure"
                      /\ Classified.error_message =
                            ErrorMessage("Expected {}, got {}",
                                         <<target.expected_status, outcome.status_code>>,
                                         <<>>)
                /\ (outcome.kind = "response" /\ ~mismatch /\ missing) =>
                      /\ Classified.status = "failure"
                      /\ Classified.error_message =
                            ErrorMessage("Expected content '{}' not found",
                                         <<>>, <<target.contains[1]>>)
                /\ (outcome.kind = "response" /\ ~mismatch /\ ~missing) =>
                      /\ Classified.status = "success"
                      /\ Classified.error_message = None
      ]_vars

\* A target requiring 'healthy' got a wrong status code, classified by the
\* status rule, and then a timeout.
C14_Witness ==
    /\ targets[1].contains = Some(<<"healthy">>)
    /\ Len(checks) = 2
    /\ checks[1].status = "failure"
    /\ checks[1].status_code # Some(targets[1].expected_status)
    /\ checks[1].error_message # None
    /\ checks[1].error_message[1].fmt = "Expected {}, got {}"
    /\ checks[2].status = "timeout"

-----------------------------------------------------------------------------
(* Claims on failing senders and on the alerted flags *)

\* The incidents are what the check rows say they should be: a target has an
\* open incident exactly while its latest check is a non-success, counting the
\* failures of the run and marked for every listed channel.
StoreFollowsChecks ==
    \A t \in Targets :
      /\ (OpenIncidents(incidents, t) # {}) <=> (TrailingFailures(t) >= 1)
      /\ \A i \in OpenIncidents(incidents, t) :
            /\ incidents[i].failure_count = TrailingFailures(t)
            /\ incidents[i].last_check_id = TargetChecks(t)[Len(TargetChecks(t))]
            /\ incidents[i].slack_alerted = In("slack", targets[t].alert_channels)
            /\ incidents[i].email_alerted = In("email", targets[t].alert_channels)
            /\ incidents[i].sms_alerted = In("sms", targets[t].alert_channels)

\* C15: whatever goes wrong in a sender (transport unreachable, credentials
\* missing, the sender raising), handle_result lets no exception escape, and
\* the incident change of the check (create, increment, resolve, flags) is in
\* the store.
C15_SendFailureNeverPropagates ==
    /\ raised = None
    /\ StoreFollowsChecks

\* A send was skipped or failed, and handle_result returned all the same.
SendFailureSwallowed ==
    /\ raised = None
    /\ \E k \in DOMAIN sent : sent[k].outcome \in { "failed", "skipped" }

\* The number of runs of consecutive non-success checks of the target.
FailureRuns(t) ==
    LET ids == TargetChecks(t)
    IN Cardinality({ j \in DOMAIN ids :
                       Failed(ids[j]) /\ (j = 1 \/ ~Failed(ids[j - 1])) })

\* C16: a target with an empty alert_channels list gets its incidents created,
\* incremented and resolved like any other target, and no message for it is
\* ever handed to a sender of any channel.
C16_NoChannelsStillTracksIncidents ==
    \A t \in Targets :
      targets[t].alert_channels = <<>> =>
        /\ \A k \in DOMAIN sent : sent[k].target_id # t
        /\ Cardinality(IncidentsOf(t)) = FailureRuns(t)
        /\ (OpenIncidents(incidents, t) # {}) <=> (TrailingFailures(t) >= 1)
        /\ \A i \in IncidentsOf(t) :
              /\ Len(RunOf(i)) = incidents[i].failure_count
              /\ incidents[i].status = "resolved" <=> incidents[i].resolved_at # None
              /\ incidents[i].status = "open" =>
                    incidents[i].last_check_id = TargetChecks(t)[Len(TargetChecks(t))]

\* A target without channels: one incident resolved, the next one open after
\* two failures, every Alerter entry point called and nothing sent.
C16_Witness ==
    \E t \in Targets :
      /\ targets[t].alert_channels = <<>>
      /\ \E r \in IncidentsOf(t) : incidents[r].status = "resolved"
      /\ \E o \in OpenIncidents(incidents, t) : incidents[o].failure_count = 2
      /\ { calls[k].op : k \in EntriesFor(calls, t, TargetChecks(t)) }
            = { "send_initial_alert", "send_escalation_alert", "send_recovery_alert" }
      /\ \A k \in DOMAIN sent : sent[k].target_id # t

\* C17: on every incident, slack_alerted, email_alerted and sms_alerted stay
\* true once they are true, whatever is done later.
C17_AlertedFlagsNeverReset ==
    [][ \A i \in DOMAIN incidents :
          /\ i \in DOMAIN incidents'
          /\ incidents[i].slack_alerted => incidents'[i].slack_alerted
          /\ incidents[i].email_alerted => incidents'[i].email_alerted
          /\ incidents[i].sms_alerted => incidents'[i].sms_alerted ]_vars

\* A marked incident was continued and resolved, and the target's next
\* incident is marked as well.
C17_Witness ==
    \E r, o \in DOMAIN incidents :
      /\ incidents[r].target_id = incidents[o].target_id
      /\ incidents[r].status = "resolved"
      /\ incidents[r].failure_count = 2
      /\ incidents[r].slack_alerted /\ incidents[r].email_alerted
      /\ incidents[o].status = "open"
      /\ incidents[o].slack_alerted /\ incidents[o].email_alerted

AlertedFlags(row) == << row.slack_alerted, row.email_alerted, row.sms_alerted >>

\* C18: the check that creates an incident marks it alerted for exactly the
\* channels of slack, email, sms that the target lists, whether the initial
\* send succeeded or not and whatever the channels' thresholds are; no later
\* escalation or recovery changes the flags.
C18_ListedChannelsMarkedAtCreation ==
    [][ /\ \A i \in DOMAIN incidents :
             /\ i \in DOMAIN incidents'
             /\ AlertedFlags(incidents'[i]) = AlertedFlags(incidents[i])
        /\ \A n \in DOMAIN incidents' \ DOMAIN incidents :
             LET listed == targets[incidents'[n].target_id].alert_channels
             IN /\ Recorded # <<>>
                /\ incidents'[n].last_check_id = Recorded[1]
                /\ AlertedFlags(incidents'[n])
                     = << In("slack", listed), In("email", listed), In("sms", listed) >>
      ]_vars

\* The initial Slack message of an incident failed to go out; the incident is
\* marked for slack, email and sms all the same, with sms below its threshold,
\* and was escalated by email and resolved since.
C18_Witness ==
    \E i \in DOMAIN incidents :
      /\ incidents[i].status = "resolved"
      /\ incidents[i].failure_count = 2
      /\ SmsThreshold(alert_config) = 3
      /\ AlertedFlags(incidents[i]) = << TRUE, TRUE, TRUE >>
      /\ \E k \in DOMAIN sent : sent[k].kind = "initial" /\ sent[k].outcome = "failed"
      /\ \E k \in DOMAIN sent : sent[k].kind = "escalation" /\ sent[k].channel = "email"
      /\ \E k \in DOMAIN calls : calls[k].op = "send_recovery_alert"

-----------------------------------------------------------------------------
(* Claims on what the store shows between the calls of handle_result *)

\* C19: the incident changes of one check are atomic for a concurrent reader
\* of the store: at no moment does the store hold an incident that is created
\* (failure_count 1) but not yet marked alerted for its listed channels.
C19_NoPartialIncidentVisible ==
    \A i \in DOMAIN incidents :
      LET listed == targets[incidents[i].target_id].alert_channels
      IN \A channel \in Range(listed) \cap Channels :
           CASE channel = "slack" -> incidents[i].slack_alerted
             [] channel = "email" -> incidents[i].email_alerted
             [] channel = "sms"   -> incidents[i].sms_alerted

\* C20: when a target has more than one open incident in the store,
\* get_open_incident reports an integrity error instead of returning one of
\* them: the call raises and hands no incident to handle_result.
C20_SeveralOpenIncidentsIsAnError ==
    [][ \A p \in Procs :
          (/\ procs[p].pc = "get_open_incident"
           /\ procs'[p].pc # "get_open_incident"
           /\ Cardinality(OpenIncidents(incidents, procs[p].result[1].target_id)) > 1)
          => /\ raised' # None
             /\ procs'[p].incident = None
             /\ procs'[p].pc = "idle" ]_vars

-----------------------------------------------------------------------------
(* Claims on a whole run *)

\* C21: a persistence error raised while one target is processed (the store
\* still reachable) does not stop the run: a run that met such an error has
\* still probed and handled every enabled target when it ends.
C21_PersistenceErrorDoesNotStopRun ==
    \A p \in Procs :
      (procs[p].run = "aborted" /\ raised = Some("sqlite3.Error"))
        => procs[p].pending = <<>>

\* C22: if an invocation is interrupted between two committed store writes,
\* the committed rows are consistent, then and after any number of later
\* complete runs: a target has at most one open incident, and the
\* failure_count of an open incident is the number of the target's trailing
\* consecutive non-success check rows.
C22_InterruptedRunLeavesStoreConsistent ==
    (\E p \in Procs : procs[p].run \in { "interrupted", "completed" })
      => \A t \in Targets :
           /\ Cardinality(OpenIncidents(incidents, t)) <= 1
           /\ \A i \in OpenIncidents(incidents, t) :
                 incidents[i].failure_count = TrailingFailures(t)

\* The check rows of the target recorded since the invocation started.
ChecksOfRun(p, t) ==
    { c \in DOMAIN checks' : c > procs[p].first /\ checks'[c].target_id = t }

\* C23: every run_checks invocation comes to its end, and it ends normally
\* (exit code 0) with exactly one check row recorded and handled for each
\* enabled target, whether the targets succeeded, failed, timed out or
\* errored.  Stated for the runs that met no persistence error: such a run
\* ends only by completing, one check row per enabled target.
C23_RunCompletesWithOneCheckPerTarget ==
    [][ \A p \in Procs :
          (/\ procs[p].run = "running"
           /\ procs'[p].run \in { "completed", "aborted" }
           /\ raised # Some("sqlite3.Error"))
          => /\ procs'[p].run = "completed"
             /\ procs'[p].pc = "idle"
             /\ \A t \in Targets :
                   Cardinality(ChecksOfRun(p, t)) = IF targets[t].enabled THEN 1 ELSE 0
      ]_vars

\* What the code does keep: the same when no sender raises.
RunCompletesWhenSendersWork ==
    [][ \A p \in Procs :
          (/\ procs[p].run = "running"
           /\ procs'[p].run \in { "completed", "aborted" }
           /\ raised # Some("sqlite3.Error")
           /\ ~SmtpPortRaises(env))
          => /\ procs'[p].run = "completed"
             /\ \A t \in Targets :
                   Cardinality(ChecksOfRun(p, t)) = IF targets[t].enabled THEN 1 ELSE 0
      ]_vars

\* C24: a run never probes a disabled target: for a target with enabled = 0
\* no check is recorded, no incident created, updated or resolved, and no
\* notification called for or sent.
C24_DisabledTargetUntouched ==
    \A t \in Targets :
      ~targets[t].enabled =>
        /\ \A c \in DOMAIN checks : checks[c].target_id # t
        /\ IncidentsOf(t) = {}
        /\ \A k \in DOMAIN calls : calls[k].target_id # t
        /\ \A k \in DOMAIN sent : sent[k].target_id # t
        /\ \A p \in Procs :
              /\ ~In(t, procs[p].pending)
              /\ procs[p].result # None => procs[p].result[1].target_id # t

\* Target 1 is disabled and target 2 enabled: two runs completed, each with
\* one check of target 2, the second one continuing its incident.
C24_Witness ==
    /\ ~targets[1].enabled /\ targets[2].enabled
    /\ procs[1].run = "completed"
    /\ procs[1].first = 1
    /\ Len(checks) = 2
    /\ \E i \in OpenIncidents(incidents, 2) : incidents[i].failure_count = 2

\* C25: check rows are append-only: a probe adds exactly one check row, no
\* other step adds one, and no step of a run changes or removes a check row
\* that exists.
C25_ChecksAppendOnly ==
    [][ /\ \A c \in DOMAIN checks :
             c \in DOMAIN checks' /\ checks'[c] = checks[c]
        /\ \A p \in Procs :
             (procs[p].pc = "idle" /\ procs'[p].pc = "get_open_incident")
               => /\ Len(checks') = Len(checks) + 1
                  /\ checks'[Len(checks')].target_id = Head(procs[p].pending)
                  /\ procs'[p].result[1].check_id = Len(checks')
        /\ (\A p \in Procs : procs[p].pc # "idle" \/ procs'[p].pc = "idle")
             => checks' = checks
      ]_vars

\* Three checks of one target, the first two of them behind an incident that
\* was created, continued and then resolved by the third.
C25_Witness ==
    /\ Len(checks) = 3
    /\ checks[1].target_id = checks[2].target_id
    /\ checks[2].target_id = checks[3].target_id
    /\ checks[1].status = "timeout" /\ checks[2].status = "failure"
    /\ checks[3].status = "success"
    /\ \E i \in DOMAIN incidents :
          incidents[i].status = "resolved" /\ incidents[i].failure_count = 2

\* The incident change of check c is in the store in full: after a
\* non-success an open incident of the target has c as last_check_id and is
\* marked for the listed channels; after a success no incident is open.
IncidentStateCommitted(c) ==
    LET t      == checks[c].target_id
        listed == targets[t].alert_channels
    IN IF Failed(c)
       THEN \E i \in OpenIncidents(incidents, t) :
              /\ incidents[i].last_check_id = c
              /\ AlertedFlags(incidents[i])
                   = << In("slack", listed), In("email", listed), In("sms", listed) >>
       ELSE OpenIncidents(incidents, t) = {}

\* C26: for each target of a run the check is recorded first, then the whole
\* incident change of that check is committed (the alerted flags of a new
\* incident included), and only then are notifications dispatched: no message
\* for a check goes to a sender before the incident state of that check is
\* committed in full.
C26_NotifyAfterIncidentCommitted ==
    [][ \A k \in DOMAIN sent' \ DOMAIN sent :
          /\ sent'[k].check_id \in DOMAIN checks
          /\ IncidentStateCommitted(sent'[k].check_id) ]_vars

\* C27: when two invocations handle the same target at the same time, no
\* field of an incident that is already resolved is changed: the invocation
\* that read the incident while it was open does not increment its
\* failure_count, change its last_check_id or overwrite its resolved_at.
C27_StaleInvocationLeavesResolvedIncident ==
    [][ \A p \in Procs : \A i \in DOMAIN incidents :
          ( /\ procs'[p] # procs[p]
            /\ procs[p].incident # None
            /\ procs[p].incident[1].id = i
            /\ incidents[i].status = "resolved" )
          => /\ incidents'[i].failure_count = incidents[i].failure_count
             /\ incidents'[i].last_check_id = incidents[i].last_check_id
             /\ incidents'[i].resolved_at = incidents[i].resolved_at
             /\ incidents'[i].status = "resolved" ]_vars

\* The incident the Alerter was given together with check c.
AlertedIncidentOf(log, c) ==
    { log[k].incident[1].id : k \in { j \in DOMAIN log : /\ log[j].check_id = c
                                                         /\ log[j].incident # None } }

\* C28: with two invocations at the same time every notification still goes
\* out at most once per incident: at most one recovery per resolved incident,
\* at most one escalation per channel per incident, and every escalation is
\* sent with the failure_count the store holds at that moment.
C28_NotificationsOncePerIncident ==
    [][ \A k \in DOMAIN calls' \ DOMAIN calls :
          LET call == calls'[k]
              i    == call.incident[1].id
          IN /\ call.op = "send_recovery_alert" =>
                  \A j \in DOMAIN calls :
                    ~ ( /\ calls[j].op = "send_recovery_alert"
                        /\ calls[j].incident[1].id = i )
             /\ call.op = "send_escalation_alert" =>
                  /\ call.failure_count = Some(incidents'[i].failure_count)
                  /\ \A m \in DOMAIN sent' \ DOMAIN sent : \A j \in DOMAIN sent :
                        ~ ( /\ sent[j].kind = "escalation"
                            /\ sent[j].channel = sent'[m].channel
                            /\ i \in AlertedIncidentOf(calls, sent[j].check_id) ) ]_vars

\* C29: the status test and the content test are ANDed, the status test
\* first: a response is a success only if its code is the expected one and,
\* when a substring is set, its body contains it; when both tests fail the row
\* is a failure with the status-mismatch message, not the content message.
C29_StatusAndContentBothRequired ==
    [][ \A p \in Procs :
          ( /\ procs[p].pc = "classify"
            /\ procs'[p].pc = "idle"
            /\ procs[p].probe[1].outcome.kind = "response" )
          => LET outcome    == procs[p].probe[1].outcome
                 target     == targets[procs[p].probe[1].target_id]
                 status_ok  == outcome.status_code = target.expected_status
                 content_ok == \/ target.contains = None
                               \/ IsSubstring(target.contains[1], outcome.text)
             IN /\ Len(checks') = Len(checks) + 1
                /\ Classified.status = "success" <=> (status_ok /\ content_ok)
                /\ ~(status_ok /\ content_ok) => Classified.status = "failure"
                /\ (~status_ok /\ ~content_ok) =>
                      Classified.error_message =
                        ErrorMessage("Expected {}, got {}",
                                     <<target.expected_status, outcome.status_code>>,
                                     <<>>) ]_vars

\* With 'healthy' required, one response had the expected code but not the
\* substring, and another had the wrong code.
C29_Witness ==
    /\ targets[1].contains = Some(<<"healthy">>)
    /\ Len(checks) = 2
    /\ checks[1].status = "failure"
    /\ checks[1].status_code = Some(targets[1].expected_status)
    /\ checks[1].error_message =
          ErrorMessage("Expected content '{}' not found", <<>>, << <<"healthy">> >>)
    /\ checks[2].status = "failure"
    /\ checks[2].status_code # Some(targets[1].expected_status)
    /\ checks[2].error_message[1].fmt = "Expected {}, got {}"

\* C30: a check classified timeout or error is recorded with no status code,
\* no response time and a non-empty error message, which for a timeout
\* carries the timeout configured for the target; a check classified success
\* or failure always carries both a status code and a response time.
C30_RecordedFieldsByStatus ==
    \A c \in DOMAIN checks :
      LET row == checks[c]
      IN /\ row.status \in { "timeout", "error" } =>
              /\ row.status_code = None
              /\ row.response_time = None
              /\ row.error_message # None
              /\ row.error_message[1].fmt # ""
         /\ row.status = "timeout" =>
              row.error_message =
                ErrorMessage("Timeout after {}s", <<targets[row.target_id].timeout>>, <<>>)
         /\ row.status \in { "success", "failure" } =>
              /\ row.status_code # None
              /\ row.response_time # None

\* What check_target does keep: the message of a timeout or error row is
\* there, as str(e) even when that is the empty string, and the other fields
\* are as C30 says.
ErrorMessagePresentPerhapsEmpty ==
    \A c \in DOMAIN checks :
      LET row == checks[c]
      IN /\ row.status \in { "timeout", "error" } =>
              /\ row.status_code = None
              /\ row.response_time = None
              /\ row.error_message # None
         /\ row.status = "timeout" =>
              row.error_message =
                ErrorMessage("Timeout after {}s", <<targets[row.target_id].timeout>>, <<>>)
         /\ row.status \in { "success", "failure" } =>
              /\ row.status_code # None
              /\ row.response_time # None

-----------------------------------------------------------------------------
(* Claims on what the incident handling depends on *)

\* C35: a target whose required substring is the empty string is treated
\* exactly like a target with no required substring: the row recorded for any
\* probe outcome is the one recorded with contains unset, and any response
\* with the expected status code is a success whatever its body.
C35_EmptySubstringIsNoSubstring ==
    [][ \A p \in Procs :
          ( /\ procs[p].pc = "classify"
            /\ procs'[p].pc = "idle"
            /\ targets[procs[p].probe[1].target_id].contains = Some(<<>>) )
          => LET t       == procs[p].probe[1].target_id
                 outcome == procs[p].probe[1].outcome
             IN /\ Len(checks') = Len(checks) + 1
                /\ Classified = CheckTarget(t, [ targets[t] EXCEPT !.contains = None ],
                                            outcome)
                /\ ( /\ outcome.kind = "response"
                     /\ outcome.status_code = targets[t].expected_status )
                   => Classified.status = "success" ]_vars

\* With the empty string required, a response with the expected code was
\* recorded as a success and one with another code as a failure.
C35_Witness ==
    /\ targets[1].contains = Some(<<>>)
    /\ Len(checks) = 2
    /\ checks[1].status = "success"
    /\ checks[1].status_code = Some(targets[1].expected_status)
    /\ checks[2].status = "failure"

\* The column of the alerted flag of a channel.
AlertedColumn(channel) ==
    CASE channel = "slack" -> "slack_alerted"
      [] channel = "email" -> "email_alerted"
      [] channel = "sms"   -> "sms_alerted"

\* C36: mark_alert_sent(incident, channel) sets the alerted flag of that
\* channel on that incident and nothing else: the other two flags,
\* failure_count, last_check_id, status and resolved_at of the incident and
\* every field of every other incident stay as they are, and the same call
\* made again changes nothing.
C36_MarkAlertSentSetsOneFlag ==
    [][ \A p \in Procs :
          ( /\ procs[p].pc = "mark_alert_sent"
            /\ procs'[p] # procs[p]
            /\ procs'[p].run = procs[p].run
            /\ raised' = None )
          => LET id      == procs[p].incident_id[1]
                 channel == Head(procs[p].todo)
             IN /\ DOMAIN incidents' = DOMAIN incidents
                /\ incidents'[id][AlertedColumn(channel)] = TRUE
                /\ incidents'[id] =
                     [ incidents[id] EXCEPT ![AlertedColumn(channel)] = TRUE ]
                /\ \A i \in DOMAIN incidents : i # id => incidents'[i] = incidents[i]
                /\ MarkAlertSent(incidents', id, channel) = incidents' ]_vars

\* The incident of the target listing slack and email is marked for both
\* and for nothing else, the incident of the other target for slack only.
C36_Witness ==
    \E i, j \in DOMAIN incidents :
      /\ incidents[i].target_id = 1
      /\ incidents[j].target_id = 2
      /\ AlertedFlags(incidents[i]) = << TRUE, TRUE, FALSE >>
      /\ AlertedFlags(incidents[j]) = << TRUE, FALSE, FALSE >>

\* C32: initial and recovery notifications go through Slack only: for a
\* target that does not list slack, the check that opens an incident and the
\* check that resolves it hand no message to any sender, while the email and
\* sms alerted flags of the incident are set at creation all the same.
C32_InitialAndRecoveryViaSlackOnly ==
    /\ \A k \in DOMAIN sent :
          sent[k].kind \in { "initial", "recovery" } => sent[k].channel = "slack"
    /\ \A t \in Targets :
          ~In("slack", targets[t].alert_channels) =>
            /\ \A c \in DOMAIN calls :
                  ( /\ calls[c].target_id = t
                    /\ calls[c].op \in { "send_initial_alert", "send_recovery_alert" } )
                  => \A k \in DOMAIN sent : sent[k].check_id # calls[c].check_id
            /\ \A i \in IncidentsOf(t) :
                  /\ \E c \in DOMAIN calls : /\ calls[c].op = "send_initial_alert"
                                              /\ calls[c].target_id = t
                  /\ AlertedFlags(incidents[i])
                       = << FALSE, In("email", targets[t].alert_channels),
                            In("sms", targets[t].alert_channels) >>

\* Slack is enabled and the target lists email and sms only: its incident was
\* opened and resolved, marked for email and sms, and nothing was sent.
C32_Witness ==
    \E t \in Targets :
      /\ targets[t].alert_channels = <<"email", "sms">>
      /\ SlackEnabled(alert_config)
      /\ \E i \in IncidentsOf(t) :
            /\ incidents[i].status = "resolved"
            /\ AlertedFlags(incidents[i]) = << FALSE, TRUE, TRUE >>
      /\ \E c \in DOMAIN calls : calls[c].target_id = t /\ calls[c].op = "send_recovery_alert"
      /\ sent = <<>>

EscalationMessages(snt, log, i, channel) ==
    { k \in DOMAIN snt :
        /\ snt[k].kind = "escalation"
        /\ snt[k].channel = channel
        /\ i \in AlertedIncidentOf(log, snt[k].check_id) }

\* The increment of incident i to the channel's threshold is committed, no
\* invocation stands between that update and its send_escalation_alert, and
\* no escalation of the channel was handed over for the incident.
EscalationMissed(incs, prcs, snt, log, i, channel) ==
    /\ i \in DOMAIN incs
    /\ incs[i].failure_count >= Threshold(channel)
    /\ ~ \E p \in Procs : /\ prcs[p].pc = "send_escalation_alert"
                          /\ prcs[p].incident[1].id = i
                          /\ incs[i].failure_count = Threshold(channel)
    /\ EscalationMessages(snt, log, i, channel) = {}

\* Incident i is resolved, no invocation stands between that resolution and
\* its send_recovery_alert, and no recovery was dispatched for the incident.
RecoveryMissed(incs, prcs, log, i) ==
    /\ i \in DOMAIN incs
    /\ incs[i].status = "resolved"
    /\ ~ \E p \in Procs : /\ prcs[p].pc = "send_recovery_alert"
                          /\ prcs[p].incident[1].id = i
    /\ ~ \E k \in DOMAIN log : /\ log[k].op = "send_recovery_alert"
                               /\ log[k].incident[1].id = i

\* C34: when an invocation is interrupted after it committed the increment of
\* an incident's failure_count to a channel's threshold and before it
\* dispatched the escalation, no later run sends that channel's escalation
\* for the incident; and when it is interrupted between resolve_incident and
\* the recovery send, the recovery is never sent.
C34_MissedNotificationIsNeverSent ==
    [][ \A i \in DOMAIN incidents :
          /\ \A channel \in { "email", "sms" } :
                EscalationMissed(incidents, procs, sent, calls, i, channel)
                  => EscalationMissed(incidents', procs', sent', calls', i, channel)
          /\ RecoveryMissed(incidents, procs, calls, i)
                  => RecoveryMissed(incidents', procs', calls', i) ]_vars

\* Senders work and the target lists email, with threshold 2: its incident
\* went to failure_count 3, send_escalation_alert was called at 3 only, and
\* no email escalation went out.
C34_Witness ==
    /\ env = WorkingEnv
    /\ In("email", targets[1].alert_channels)
    /\ \E i \in OpenIncidents(incidents, 1) :
          /\ incidents[i].failure_count = 3
          /\ EscalationMissed(incidents, procs, sent, calls, i, "email")
          /\ \E k \in DOMAIN calls : /\ calls[k].op = "send_escalation_alert"
                                      /\ calls[k].incident[1].id = i
                                      /\ calls[k].failure_count = Some(3)
          /\ \A k \in DOMAIN calls : calls[k].op = "send_escalation_alert"
                                        => calls[k].failure_count = Some(3)

\* Kind, channel and failure_count of the messages from position `from` on.
NotificationKinds(snt, from) ==
    [ k \in 1..(Len(snt) - from) |->
        << snt[from + k].kind, snt[from + k].channel, snt[from + k].failure_count >> ]

\* C31: the incident handling tells success from non-success and nothing
\* more: two result sequences of a target that agree on which results are
\* successes give the same incidents (ids, status, failure_count) and the same
\* notification kinds, whatever mix of failure, timeout and error the
\* non-success results are.  Step by step: had the probe come back with any
\* other outcome of the same side, the store after handle_result would be the
\* same one, so the two sequences go through the same stores, and the same
\* kinds of messages would have been handed over.
C31_OnlySuccessVersusNonSuccessMatters ==
    [][ Recorded # <<>> =>
          LET t == Classified.target_id
          IN \A incident \in FetchOpenIncident(incidents, t) :
               \A outcome \in ProbeOutcomes :
                 \A row \in { CheckTarget(t, targets[t], outcome) } :
                 \A other \in { HandleResult(Db, alert_config, env,
                                              Result(row, Len(checks'), targets[t]),
                                              incident, Now(checks')) } :
                    ((row.status = "success") <=> (Classified.status = "success"))
                    => /\ other.incidents = incidents'
                       /\ [ i \in DOMAIN other.incidents |->
                             << other.incidents[i].status,
                                other.incidents[i].failure_count >> ]
                          = [ i \in DOMAIN incidents' |->
                                << incidents'[i].status, incidents'[i].failure_count >> ]
                       /\ NotificationKinds(other.sent, Len(sent))
                          = NotificationKinds(sent', Len(sent))
                       /\ [ k \in DOMAIN other.calls |-> other.calls[k].op ]
                          = [ k \in DOMAIN calls' |-> calls'[k].op ] ]_vars

\* One run of a failure, a timeout and an error opened and carried one
\* incident to failure_count 3 and its email escalation; a success resolved it.
C31_Witness ==
    /\ Len(checks) = 4
    /\ << checks[1].status, checks[2].status, checks[3].status, checks[4].status >>
          = << "failure", "timeout", "error", "success" >>
    /\ Len(incidents) = 1
    /\ incidents[1].status = "resolved"
    /\ incidents[1].failure_count = 3
    /\ \E k \in DOMAIN sent : /\ sent[k].kind = "escalation"
                               /\ sent[k].channel = "email"
                               /\ sent[k].check_id = 3

=============================================================================
